---- MODULE Spec2Model ----
(***************************************************************************)
(* Model of cubecl-runtime's storage handle algebra                        *)
(* (crates/cubecl-runtime/src/storage/base.rs): StorageUtilization,        *)
(* StorageHandle with size / offset / offset_start / offset_end, and the   *)
(* ComputeStorage trait (alloc / dealloc) that produces the handles.       *)
(*                                                                         *)
(* usize is modelled as the integers 0 .. UsizeMax.  Rust's `+` and `-` on *)
(* usize panic on overflow when the build has overflow checks (debug       *)
(* profile) and wrap modulo UsizeMax + 1 when it has not (release          *)
(* profile); the profile is fixed per build, so it is chosen in Init.      *)
(***************************************************************************)
EXTENDS Integers, FiniteSets, Sequences, TLC

\* ---------------------------------------------------------------- bounds
UsizeMax == 7        \* usize::MAX in the model (2^64 - 1 in the program)
MaxIds == 2          \* number of StorageIds the backend may mint
DeviceMemory == 4    \* bytes of device memory the backend can hand out

Modulus == UsizeMax + 1
Usize == 0 .. (Modulus - 1)
StorageId == 0 .. (MaxIds - 1)

VARIABLES
    overflow_checks, \* build profile: TRUE = `-`/`+` panic, FALSE = they wrap
    chunks,          \* storage backend: live StorageId -> allocated bytes
    next_id,         \* storage backend: next StorageId to mint
    root,            \* handle returned by the most recent alloc
    self,            \* receiver (&self) of the most recent method call
    ret,             \* value returned by the most recent call
    op,              \* name of the most recent call
    arg,             \* its usize argument (0 when it has none)
    in_bounds,       \* every offset_bytes since the last alloc was <= size()
    status           \* "running" or "panicked"

vars == <<overflow_checks, chunks, next_id, root, self, ret, op, arg,
          in_bounds, status>>

\* ------------------------------------------------------------ data model
Full(size) == [tag |-> "Full", size |-> size]

Slice(offset, size) == [tag |-> "Slice", offset |-> offset, size |-> size]

StorageHandle(id, utilization) == [id |-> id, utilization |-> utilization]

\* values a call can produce besides a StorageHandle
Panic == [panic |-> TRUE]
UsizeValue(v) == [usize |-> v]
Unit == [unit |-> TRUE]
NoHandle == [nohandle |-> TRUE]

IsHandle(v) == "utilization" \in DOMAIN v

\* ------------------------------------------------------ usize arithmetic
sub_overflows(a, b) == b > a

wrapping_sub(a, b) == (a - b + Modulus) % Modulus

add_overflows(a, b) == a + b >= Modulus

wrapping_add(a, b) == (a + b) % Modulus

\* ------------------------------------------------- StorageHandle methods
size_ReturnsEnd(h) ==
    IF h.utilization.tag = "Full" THEN h.utilization.size
    ELSE wrapping_add(h.utilization.offset, h.utilization.size)

size(h) ==
    IF h.utilization.tag = "Full" THEN h.utilization.size
    ELSE h.utilization.size

offset_ZeroForFull(h) ==
    IF h.utilization.tag = "Full" THEN UsizeValue(0)
    ELSE UsizeValue(h.utilization.offset)

offset(h) ==
    IF h.utilization.tag = "Full" THEN Panic
    ELSE UsizeValue(h.utilization.offset)

offset_start_KeepsSize(h, offset_bytes) ==
    LET u == h.utilization IN
    IF u.tag = "Full" THEN
        IF overflow_checks /\ sub_overflows(u.size, offset_bytes) THEN Panic
        ELSE StorageHandle(h.id, Slice(offset_bytes, u.size))
    ELSE
        IF overflow_checks /\ add_overflows(u.offset, offset_bytes) THEN Panic
        ELSE StorageHandle(h.id,
                 Slice(wrapping_add(u.offset, offset_bytes), u.size))

offset_start_DropsBase(h, offset_bytes) ==
    LET u == h.utilization IN
    IF overflow_checks /\ sub_overflows(u.size, offset_bytes) THEN Panic
    ELSE StorageHandle(h.id,
             Slice(offset_bytes, wrapping_sub(u.size, offset_bytes)))

offset_start(h, offset_bytes) ==
    LET u == h.utilization IN
    IF u.tag = "Full" THEN
        IF overflow_checks /\ sub_overflows(u.size, offset_bytes) THEN Panic
        ELSE StorageHandle(h.id,
                 Slice(offset_bytes, wrapping_sub(u.size, offset_bytes)))
    ELSE
        IF overflow_checks /\ (add_overflows(u.offset, offset_bytes)
                               \/ sub_overflows(u.size, offset_bytes))
        THEN Panic
        ELSE StorageHandle(h.id,
                 Slice(wrapping_add(u.offset, offset_bytes),
                       wrapping_sub(u.size, offset_bytes)))

offset_end_MovesStart(h, offset_bytes) ==
    LET u == h.utilization IN
    IF overflow_checks /\ sub_overflows(u.size, offset_bytes) THEN Panic
    ELSE IF u.tag = "Full" THEN
        StorageHandle(h.id,
            Slice(offset_bytes, wrapping_sub(u.size, offset_bytes)))
    ELSE
        StorageHandle(h.id,
            Slice(wrapping_add(u.offset, offset_bytes),
                  wrapping_sub(u.size, offset_bytes)))

offset_end_FullCopiesStart(h, offset_bytes) ==
    LET u == h.utilization IN
    IF overflow_checks /\ sub_overflows(u.size, offset_bytes) THEN Panic
    ELSE IF u.tag = "Full" THEN
        StorageHandle(h.id,
            Slice(offset_bytes, wrapping_sub(u.size, offset_bytes)))
    ELSE
        StorageHandle(h.id,
            Slice(u.offset, wrapping_sub(u.size, offset_bytes)))

offset_end_OtherId(h, offset_bytes) ==
    LET u == h.utilization IN
    IF overflow_checks /\ sub_overflows(u.size, offset_bytes) THEN Panic
    ELSE StorageHandle((h.id + 1) % MaxIds,
             Slice(IF u.tag = "Full" THEN 0 ELSE u.offset,
                   wrapping_sub(u.size, offset_bytes)))

offset_end(h, offset_bytes) ==
    LET u == h.utilization IN
    IF overflow_checks /\ sub_overflows(u.size, offset_bytes) THEN Panic
    ELSE IF u.tag = "Full" THEN
        StorageHandle(h.id, Slice(0, wrapping_sub(u.size, offset_bytes)))
    ELSE
        StorageHandle(h.id,
            Slice(u.offset, wrapping_sub(u.size, offset_bytes)))

\* ---------------------------------------------- ComputeStorage (backend)
RECURSIVE SumOver(_, _)
SumOver(f, S) ==
    IF S = {} THEN 0
    ELSE LET x == CHOOSE y \in S : TRUE IN f[x] + SumOver(f, S \ {x})

allocated == SumOver(chunks, DOMAIN chunks)

out_of_memory(bytes) == allocated + bytes > DeviceMemory

alloc(bytes) == StorageHandle(next_id, Full(bytes))

\* ----------------------------------------------------------------- Init
Init ==
    /\ overflow_checks \in BOOLEAN
    /\ chunks = [i \in {} |-> 0]
    /\ next_id = 0
    /\ root = NoHandle
    /\ self = NoHandle
    /\ ret = Unit
    /\ op = "init"
    /\ arg = 0
    /\ in_bounds = TRUE
    /\ status = "running"

\* the handles a caller holds and may call a method on
Receivers == {h \in {self, ret} : IsHandle(h)}

\* -------------------------------------------------------------- actions
\* fn alloc(&mut self, size: usize) -> StorageHandle: the return type has no
\* error case, so an allocation that cannot be served can only abort.
Alloc(bytes) ==
    /\ status = "running"
    /\ next_id < MaxIds
    /\ op' = "alloc"
    /\ arg' = bytes
    /\ self' = NoHandle
    /\ in_bounds' = TRUE
    /\ IF out_of_memory(bytes)
       THEN /\ ret' = Panic
            /\ status' = "panicked"
            /\ UNCHANGED <<chunks, next_id, root>>
       ELSE /\ ret' = alloc(bytes)
            /\ root' = alloc(bytes)
            /\ chunks' = [i \in DOMAIN chunks \cup {next_id} |->
                             IF i = next_id THEN bytes ELSE chunks[i]]
            /\ next_id' = next_id + 1
            /\ status' = "running"
    /\ UNCHANGED overflow_checks

Dealloc(id) ==
    /\ status = "running"
    /\ id \in DOMAIN chunks
    /\ chunks' = [i \in DOMAIN chunks \ {id} |-> chunks[i]]
    /\ op' = "dealloc"
    /\ arg' = 0
    /\ ret' = Unit
    /\ UNCHANGED <<overflow_checks, next_id, root, self, in_bounds, status>>

CallSize(h) ==
    /\ status = "running"
    /\ self' = h
    /\ ret' = UsizeValue(size(h))
    /\ op' = "size"
    /\ arg' = 0
    /\ UNCHANGED <<overflow_checks, chunks, next_id, root, in_bounds, status>>

CallOffset(h) ==
    /\ status = "running"
    /\ self' = h
    /\ ret' = offset(h)
    /\ status' = IF offset(h) = Panic THEN "panicked" ELSE "running"
    /\ op' = "offset"
    /\ arg' = 0
    /\ UNCHANGED <<overflow_checks, chunks, next_id, root, in_bounds>>

CallOffsetStart(h, offset_bytes) ==
    /\ status = "running"
    /\ self' = h
    /\ ret' = offset_start(h, offset_bytes)
    /\ status' = IF offset_start(h, offset_bytes) = Panic
                 THEN "panicked" ELSE "running"
    /\ in_bounds' = (in_bounds /\ offset_bytes <= size(h))
    /\ op' = "offset_start"
    /\ arg' = offset_bytes
    /\ UNCHANGED <<overflow_checks, chunks, next_id, root>>

CallOffsetEnd(h, offset_bytes) ==
    /\ status = "running"
    /\ self' = h
    /\ ret' = offset_end(h, offset_bytes)
    /\ status' = IF offset_end(h, offset_bytes) = Panic
                 THEN "panicked" ELSE "running"
    /\ in_bounds' = (in_bounds /\ offset_bytes <= size(h))
    /\ op' = "offset_end"
    /\ arg' = offset_bytes
    /\ UNCHANGED <<overflow_checks, chunks, next_id, root>>

Next ==
    \/ \E bytes \in Usize : Alloc(bytes)
    \/ \E id \in StorageId : Dealloc(id)
    \/ \E h \in Receivers : CallSize(h)
    \/ \E h \in Receivers : CallOffset(h)
    \/ \E h \in Receivers, n \in Usize : CallOffsetStart(h, n)
    \/ \E h \in Receivers, n \in Usize : CallOffsetEnd(h, n)

Spec == Init /\ [][Next]_vars

\* ------------------------------------------------------------- typing
TypeOK ==
    /\ overflow_checks \in BOOLEAN
    /\ DOMAIN chunks \subseteq StorageId
    /\ next_id \in 0 .. MaxIds
    /\ status \in {"running", "panicked"}
    /\ arg \in Usize
    /\ \A h \in Receivers :
          /\ h.id \in StorageId
          /\ h.utilization.size \in Usize
          /\ h.utilization.tag = "Slice" => h.utilization.offset \in Usize

\* ------------------------------------------------------ claim vocabulary
\* first byte of the region a handle addresses (a Full handle starts at 0)
region_start(h) ==
    IF h.utilization.tag = "Full" THEN 0 ELSE h.utilization.offset

\* one past the last byte of the region a handle addresses
region_end(h) == region_start(h) + h.utilization.size

Derivations == {"offset_start", "offset_end"}

\* an error value a fallible alloc would hand back to its caller
AllocError == [err |-> "OutOfMemory"]

\* C1: whenever offset_start(n) is called on a handle h with n <= h.size(),
\* it returns a Slice whose size is h.size() - n and whose offset is n for a
\* Full h and h's offset plus n for a Slice h.
C1_OffsetStartResult ==
    (op = "offset_start" /\ arg <= size(self)) =>
        /\ IsHandle(ret)
        /\ ret.utilization =
               Slice(region_start(self) + arg, size(self) - arg)

\* C2: whenever offset_end(n) is called on a handle h with n <= h.size(), it
\* returns a Slice whose size is h.size() - n and whose offset is h's start
\* (0 for a Full h, h's offset for a Slice h).
C2_OffsetEndResult ==
    (op = "offset_end" /\ arg <= size(self)) =>
        /\ status = "running"
        /\ IsHandle(ret)
        /\ ret.utilization = Slice(region_start(self), size(self) - arg)

\* C2 witness: offset_end(2) on Slice{1, 3} has returned Slice{1, 1}.
C2_Witness ==
    /\ op = "offset_end"
    /\ self.utilization = Slice(1, 3)
    /\ arg = 2
    /\ IsHandle(ret)
    /\ ret.utilization = Slice(1, 1)

\* C3: offset_start(n) and offset_end(n) with n > h.size() are rejected
\* fatally: the call panics and returns no handle.
C3_OversizedRejected ==
    (op \in Derivations /\ arg > size(self)) =>
        /\ ret = Panic
        /\ status = "panicked"

C5_OffsetStartComposes ==
    \A h \in Receivers : \A a, b \in Usize :
        a + b <= size(h) =>
            LET x == offset_start(h, a)
                y == offset_start(h, a + b)
            IN /\ IsHandle(x)
               /\ IsHandle(y)
               /\ IsHandle(offset_start(x, b))
               /\ offset_start(x, b).utilization = y.utilization

\* C5 witness: the handle of the last alloc was shrunk by a > 0 and the
\* result by b > 0, and the outcome is the alloc's handle shrunk by a + b.
C5_Witness ==
    /\ op = "offset_start"
    /\ IsHandle(root)
    /\ IsHandle(ret)
    /\ \E a, b \in Usize \ {0} :
          /\ a + b <= size(root)
          /\ self = offset_start(root, a)
          /\ arg = b
          /\ ret = offset_start(root, a + b)

\* C6: size() never fails and returns s for Full(s) and size for
\* Slice{offset, size}, whatever the offset.
C6_SizeTotal ==
    /\ op = "size" =>
          /\ status = "running"
          /\ ret = UsizeValue(self.utilization.size)
    /\ \A h \in Receivers : \A o \in Usize :
          size(StorageHandle(h.id, Slice(o, h.utilization.size)))
              = h.utilization.size

\* C6 witness: size() was called on a Slice with a non-zero offset and
\* returned the slice's size.
C6_Witness ==
    /\ op = "size"
    /\ self.utilization.tag = "Slice"
    /\ self.utilization.offset > 0
    /\ self.utilization.size > 0
    /\ ret = UsizeValue(self.utilization.size)

\* C7: a call of offset_start or offset_end that returns a handle returns one
\* with the receiver's StorageId, leaves the receiver as it was, and
\* allocates and deallocates nothing.
C7_DerivationIsPure ==
    [][(op' \in Derivations /\ IsHandle(ret')) =>
           /\ ret'.id = self'.id
           /\ self' \in Receivers
           /\ chunks' = chunks
           /\ next_id' = next_id]_vars

\* C7 witness: a derivation returned a handle different from its receiver
\* while a chunk was live.
C7_Witness ==
    /\ op \in Derivations
    /\ IsHandle(ret)
    /\ ret # self
    /\ ret.id = self.id
    /\ self.id \in DOMAIN chunks

\* C8: alloc never aborts: it returns either a Full(size) handle with an id
\* that is not live, or an error value the caller can recover from.
C8_AllocFailureRecoverable ==
    op = "alloc" =>
        /\ status = "running"
        /\ (IsHandle(ret) \/ ret = AllocError)

\* C9: as long as every offset_bytes since the alloc was at most the size of
\* the handle it was applied to, a derived handle is a Slice inside its
\* receiver's region, which is inside [0, S) of the Full(S) allocation; the
\* size has not grown and the offset has not shrunk.
C9_Containment ==
    (in_bounds /\ op \in Derivations) =>
        /\ IsHandle(root)
        /\ root.utilization.tag = "Full"
        /\ IsHandle(ret)
        /\ ret.utilization.tag = "Slice"
        /\ region_end(self) <= size(root)
        /\ region_start(ret) >= region_start(self)
        /\ region_end(ret) <= region_end(self)
        /\ size(ret) <= size(self)

\* C9 witness: a Slice strictly inside the allocation was shrunk again, to a
\* non-empty Slice strictly inside it.
C9_Witness ==
    /\ in_bounds
    /\ op \in Derivations
    /\ IsHandle(ret)
    /\ self.utilization.tag = "Slice"
    /\ region_start(self) > 0
    /\ region_end(self) < size(root)
    /\ size(ret) > 0
    /\ size(ret) < size(self)

\* C10: for every handle h a caller holds and all a, b with
\* a + b <= h.size(), h.offset_start(a).offset_end(b) and
\* h.offset_end(b).offset_start(a) are both returned and are the same handle
\* (id, offset and size).
C10_StartEndCommute ==
    \A h \in Receivers : \A a, b \in Usize :
        a + b <= size(h) =>
            LET x == offset_start(h, a)
                y == offset_end(h, b)
            IN /\ IsHandle(x)
               /\ IsHandle(y)
               /\ IsHandle(offset_end(x, b))
               /\ offset_end(x, b) = offset_start(y, a)

\* C10 witness: the handle of the last alloc was shrunk by a > 0 at the
\* front and then by b > 0 at the back, and the outcome is what shrinking
\* the back first gives.
C10_Witness ==
    /\ op = "offset_end"
    /\ IsHandle(root)
    /\ IsHandle(ret)
    /\ \E a, b \in Usize \ {0} :
          /\ a + b <= size(root)
          /\ self = offset_start(root, a)
          /\ arg = b
          /\ ret = offset_start(offset_end(root, b), a)
====
